---- MODULE Spec2Model ----
(***************************************************************************)
(* Model of lda_scripts/bidslda.py: the corpus loader (MongoDB_loader),    *)
(* the weighted document-term matrix builder (createDocTermMat,            *)
(* apply_weighting) and the topic model wrapper (LDAM).                    *)
(*                                                                         *)
(* A Python string is a sequence of one-character strings; a word is a     *)
(* string without whitespace.  A Python dict is a sequence of <<key,       *)
(* value>> pairs in insertion order.                                       *)
(***************************************************************************)
EXTENDS Integers, Sequences, FiniteSets, TLC

VARIABLES
    store,        \* text_collection: the records, in natural (insertion) order
    loadState,    \* "init" | "loaded" | "error": the outcome of get_corpus
    loadError,    \* the type the AssertionError of get_corpus names, or "none"
    corpus,       \* the list get_corpus returned
    labelsSet,    \* whether self.terms / self.documents exist on the LDAM
    terms,        \* LDAM.terms
    documents,    \* LDAM.documents
    fitted,       \* whether self.model has topic_word_ / doc_topic_
    topic_word,   \* LDAM.model.topic_word_
    doc_topic,    \* LDAM.model.doc_topic_
    dataMatrix,   \* the matrix the last fit call built and handed to the model
    labelData,    \* the dataset of the last fit call (built terms/documents)
    fitData,      \* the dataset whose matrix produced topic_word/doc_topic
    lastFit,      \* "none" | "ok" | "raised": how the last fit call ended
    out,          \* what the most recent call yielded or printed
    wcalls        \* apply_weighting calls made directly: <<deg_sep, result>>

vars == <<store, loadState, loadError, corpus, labelsSet, terms, documents, fitted,
          topic_word, doc_topic, dataMatrix, labelData, fitData, lastFit, out, wcalls>>

------------------------------------------------------------------------------
(* Bounds of the model *)

MaxRecords == 2      \* records in the store
MaxSeed == 1         \* outcomes of the external fitting routine: 0..MaxSeed
MaxNWords == 1       \* n_words arguments: 0..MaxNWords
MaxCalls == 2        \* direct apply_weighting calls recorded

(* Program constants *)

MAX_DEGREE == 10
NumberTopics == 5
PowerLawExponent == 1

------------------------------------------------------------------------------
(* Python strings and lists *)

Max2(a, b) == IF a >= b THEN a ELSE b
Min2(a, b) == IF a <= b THEN a ELSE b

RECURSIVE Pow(_, _)
Pow(b, e) == IF e = 0 THEN 1 ELSE b * Pow(b, e - 1)

IsSpace(ch) == ch = " "

\* str.lower() on one character
LowerChar(ch) ==
    CASE ch = "A" -> "a"
      [] ch = "B" -> "b"
      [] ch = "C" -> "c"
      [] OTHER -> ch

IsLowerLetter(ch) == ch \in {"a", "b", "c"}

\* str.split() without arguments: split on runs of whitespace, no empty words
RECURSIVE SplitAcc(_, _, _, _)
SplitAcc(s, i, cur, acc) ==
    IF i > Len(s)
    THEN IF cur = <<>> THEN acc ELSE Append(acc, cur)
    ELSE IF IsSpace(s[i])
         THEN SplitAcc(s, i + 1, <<>>, IF cur = <<>> THEN acc ELSE Append(acc, cur))
         ELSE SplitAcc(s, i + 1, Append(cur, s[i]), acc)

Split(s) == SplitAcc(s, 1, <<>>, <<>>)

\* ' '.join(words)
RECURSIVE Join(_)
Join(words) ==
    IF words = <<>> THEN <<>>
    ELSE IF Len(words) = 1 THEN words[1]
    ELSE words[1] \o <<" ">> \o Join(Tail(words))

\* Python's seq[:stop]
SliceTo(seq, stop) ==
    LET n == Len(seq)
        end == IF stop < 0 THEN Max2(n + stop, 0) ELSE Min2(stop, n)
    IN  SubSeq(seq, 1, end)

(* Python dicts, in insertion order *)

DictHas(d, k) == \E i \in 1..Len(d) : d[i][1] = k

DictGet(d, k, default) ==
    IF DictHas(d, k)
    THEN d[CHOOSE i \in 1..Len(d) : d[i][1] = k][2]
    ELSE default

DictSet(d, k, v) ==
    IF DictHas(d, k)
    THEN [i \in 1..Len(d) |-> IF d[i][1] = k THEN <<k, v>> ELSE d[i]]
    ELSE Append(d, <<k, v>>)

DictKeys(d) == [i \in 1..Len(d) |-> d[i][1]]

------------------------------------------------------------------------------
(* textmining.TermDocumentMatrix, as createDocTermMat uses it *)

\* textmining.simple_tokenize: lower-case, every character that is not a
\* lower-case letter becomes a space, then split
simple_tokenize(document) ==
    LET lowered == [i \in 1..Len(document) |-> LowerChar(document[i])]
        cleaned == [i \in 1..Len(lowered) |->
                      IF IsLowerLetter(lowered[i]) THEN lowered[i] ELSE " "]
    IN  Split(cleaned)

RECURSIVE CountWords(_, _)
CountWords(words, counts) ==
    IF words = <<>> THEN counts
    ELSE CountWords(Tail(words),
                    DictSet(counts, Head(words), DictGet(counts, Head(words), 0) + 1))

RECURSIVE BumpDocCount(_, _)
BumpDocCount(keys, doc_count) ==
    IF keys = <<>> THEN doc_count
    ELSE BumpDocCount(Tail(keys),
                      DictSet(doc_count, Head(keys), DictGet(doc_count, Head(keys), 0) + 1))

EmptyTdm == [sparse |-> <<>>, doc_count |-> <<>>]

\* TermDocumentMatrix.add_doc
add_doc(tdm, document) ==
    LET word_counts == CountWords(simple_tokenize(document), <<>>)
    IN  [sparse |-> Append(tdm.sparse, word_counts),
         doc_count |-> BumpDocCount(DictKeys(word_counts), tdm.doc_count)]

\* TermDocumentMatrix.rows(cutoff): the header, then one row per added document
tdm_rows(tdm, cutoff) ==
    LET words == SelectSeq(DictKeys(tdm.doc_count),
                           LAMBDA w : DictGet(tdm.doc_count, w, 0) >= cutoff)
    IN  <<words>> \o
        [r \in 1..Len(tdm.sparse) |->
            [j \in 1..Len(words) |-> DictGet(tdm.sparse[r], words[j], 0)]]

------------------------------------------------------------------------------
(* The weighting function *)

\* models.power_law: x^(-k), as the fraction 1 / x^k
power_law(x) == [num |-> 1, den |-> Pow(x, PowerLawExponent)]

\* int(a / b) for positive fractions a and b
IntOfQuotient(a, b) == (a.num * b.den) \div (a.den * b.num)

apply_weighting_unnormalised(deg_sep) ==
    power_law(deg_sep).num \div power_law(deg_sep).den

apply_weighting_inverted(deg_sep) ==
    IntOfQuotient(power_law(MAX_DEGREE), power_law(deg_sep))

apply_weighting(deg_sep) == IntOfQuotient(power_law(deg_sep), power_law(MAX_DEGREE))

------------------------------------------------------------------------------
(* createDocTermMat *)

RECURSIVE AddCopies(_, _, _)
AddCopies(tdm, document, n) ==
    IF n <= 0 THEN tdm
    ELSE AddCopies(add_doc(tdm, document), document, n - 1)

RECURSIVE InsertAll(_, _, _)
InsertAll(dataset, tdm, titles) ==
    IF dataset = <<>> THEN [tdm |-> tdm, titles |-> titles]
    ELSE LET document == Head(dataset)
             weight == apply_weighting(document.deg_sep)
         IN  InsertAll(Tail(dataset),
                       AddCopies(tdm, Join(document.document), weight),
                       Append(titles, document.base_url))

RECURSIVE InsertAllOnce(_, _, _)
InsertAllOnce(dataset, tdm, titles) ==
    IF dataset = <<>> THEN [tdm |-> tdm, titles |-> titles]
    ELSE InsertAllOnce(Tail(dataset),
                       add_doc(tdm, Join(Head(dataset).document)),
                       Append(titles, Head(dataset).base_url))

DocTermMatOf(built, cutoff) ==
    LET temp == tdm_rows(built.tdm, cutoff)
    IN  [matrix |-> Tail(temp), terms |-> temp[1], titles |-> built.titles]

createDocTermMat_unweighted(dataset) ==
    DocTermMatOf(InsertAllOnce(dataset, EmptyTdm, <<>>), 1)

createDocTermMat_cutoff2(dataset) ==
    DocTermMatOf(InsertAll(dataset, EmptyTdm, <<>>), 2)

createDocTermMat(dataset) ==
    DocTermMatOf(InsertAll(dataset, EmptyTdm, <<>>), 1)

------------------------------------------------------------------------------
(* MongoDB_loader *)

\* filter_words: the type assertion, then document.split(); the tokenizer and
\* stopword code after the return is never reached
filter_words_unchecked(document) ==
    [ok |-> TRUE, words |-> Split(document.val), badType |-> "str"]

filter_words(document) ==
    IF document.type \in {"str"}
    THEN [ok |-> TRUE, words |-> Split(document.val), badType |-> "str"]
    ELSE [ok |-> FALSE, words |-> <<>>, badType |-> document.type]

\* items.DocumentItem
DocumentItem(base_url) == [base_url |-> base_url, document |-> <<>>, deg_sep |-> 1]

add_words(item, words) == [item EXCEPT !.document = item.document \o words]

update_degree(item, deg) == [item EXCEPT !.deg_sep = Max2(item.deg_sep, deg)]

\* text_collection.distinct("base_url"): each value once, by first occurrence
RECURSIVE Distinct(_, _)
Distinct(recs, seen) ==
    IF recs = <<>> THEN seen
    ELSE Distinct(Tail(recs),
                  IF \E i \in 1..Len(seen) : seen[i] = Head(recs).base_url
                  THEN seen ELSE Append(seen, Head(recs).base_url))

FindAny(recs, base_url) == recs

\* text_collection.find({"base_url": base_url})
Find(recs, base_url) == SelectSeq(recs, LAMBDA r : r.base_url = base_url)


\* the inner loop of get_corpus over the records found for one base_url
RECURSIVE FoldRecords(_, _)
FoldRecords(item, recs) ==
    IF recs = <<>> THEN [ok |-> TRUE, item |-> item, badType |-> "str"]
    ELSE LET fw == filter_words(Head(recs).text)
         IN  IF ~fw.ok
             THEN [ok |-> FALSE, item |-> item, badType |-> fw.badType]
             ELSE FoldRecords(update_degree(add_words(item, fw.words), Head(recs).deg_sep),
                              Tail(recs))

\* the outer loop of get_corpus
RECURSIVE LoadAll(_, _, _)
LoadAll(recs, urls, acc) ==
    IF urls = <<>> THEN [ok |-> TRUE, corpus |-> acc, badType |-> "str"]
    ELSE LET r == FoldRecords(DocumentItem(Head(urls)), Find(recs, Head(urls)))
         IN  IF ~r.ok
             THEN [ok |-> FALSE, corpus |-> <<>>, badType |-> r.badType]
             ELSE LoadAll(recs, Tail(urls), Append(acc, r.item))

get_corpus(recs) == LoadAll(recs, Distinct(recs, <<>>), <<>>)

------------------------------------------------------------------------------
(* lda.LDA, the external fitting routine *)

\* fit raises on a matrix without rows or without columns
LdaRaises(matrix) == Len(matrix) = 0 \/ Len(matrix[1]) = 0

\* The fitted distributions are the routine's own choice; seed names one
\* outcome.  Weights within a topic, and within a document, are distinct.
LdaTopicWord(nTerms, seed) ==
    [t \in 1..NumberTopics |-> [v \in 1..nTerms |-> ((v + t + seed) % nTerms) + 1]]

LdaDocTopic(nRows, seed) ==
    [r \in 1..nRows |-> [t \in 1..NumberTopics |-> ((r + t + seed) % NumberTopics) + 1]]

\* numpy argsort, ascending, as 1-based positions
ArgSort(w) ==
    [p \in 1..Len(w) |->
        CHOOSE v \in 1..Len(w) :
            Cardinality({u \in 1..Len(w) :
                w[u] < w[v] \/ (w[u] = w[v] /\ u < v)}) = p - 1]

\* numpy argmax, as the 0-based index Python prints
ArgMax(w) ==
    (CHOOSE v \in 1..Len(w) :
        /\ \A u \in 1..Len(w) : w[u] <= w[v]
        /\ \A u \in 1..(v - 1) : w[u] < w[v]) - 1

------------------------------------------------------------------------------
(* LDAM accessors *)

NoOutput == [kind |-> "none", n_words |-> 0, vocab |-> <<>>, hasVocab |-> FALSE,
             lines |-> <<>>, err |-> "none"]

\* one topic's line in LDAM.topics: terms[argsort(top_dist)][:-(n_words+1)]
TopicWords(top_dist, n_words) ==
    LET order == ArgSort(top_dist)
    IN  SliceTo([p \in 1..Len(order) |-> terms[order[p]]], -(n_words + 1))

TopicLine(i, n_words) ==
    [topic |-> i - 1, text |-> Join(TopicWords(topic_word[i], n_words))]

\* what LDAM.topics(n_words) yields until it ends or raises
TopicsOutput(n_words) ==
    IF ~labelsSet
    THEN [NoOutput EXCEPT !.kind = "topics", !.n_words = n_words,
                          !.err = "AttributeError"]
    ELSE IF ~fitted
    THEN [NoOutput EXCEPT !.kind = "topics", !.n_words = n_words,
                          !.vocab = terms, !.hasVocab = TRUE,
                          !.err = "AttributeError"]
    ELSE IF Len(topic_word[1]) > Len(terms)
    THEN [NoOutput EXCEPT !.kind = "topics", !.n_words = n_words,
                          !.vocab = terms, !.hasVocab = TRUE,
                          !.err = "IndexError"]
    ELSE [NoOutput EXCEPT !.kind = "topics", !.n_words = n_words,
                          !.vocab = terms, !.hasVocab = TRUE,
                          !.lines = [i \in 1..Len(topic_word) |-> TopicLine(i, n_words)]]

DocTopicLine(i) == [title |-> documents[i], topic |-> ArgMax(doc_topic[i])]

\* what LDAM.printDocTopic prints until it ends or raises
DocTopicOutput ==
    IF ~fitted
    THEN [NoOutput EXCEPT !.kind = "doctopic", !.err = "AttributeError"]
    ELSE LET n == Min2(Len(documents), Len(doc_topic))
         IN  [NoOutput EXCEPT !.kind = "doctopic",
                              !.lines = [i \in 1..n |-> DocTopicLine(i)],
                              !.err = IF Len(documents) > Len(doc_topic)
                                      THEN "IndexError" ELSE "none"]

------------------------------------------------------------------------------
(* Inputs *)

Urls == {"a", "b"}

TextA == [type |-> "str", val |-> <<"c", " ", "a", " ", "c">>]
TextB == [type |-> "str", val |-> <<"a", " ", " ", "B", "1">>]
TextN == [type |-> "int", val |-> <<>>]
Texts == {TextA, TextB, TextN}

Degrees == {1, 5, MAX_DEGREE}

Records == [base_url : Urls, text : Texts, deg_sep : Degrees]

Stores == UNION {[1..n -> Records] : n \in 0..MaxRecords}

Prefixes(seq) == {SubSeq(seq, 1, n) : n \in 0..Len(seq)}

------------------------------------------------------------------------------
(* The state machine *)

LdamInit ==
    /\ labelsSet = FALSE
    /\ terms = <<>>
    /\ documents = <<>>
    /\ fitted = FALSE
    /\ topic_word = <<>>
    /\ doc_topic = <<>>
    /\ dataMatrix = <<>>
    /\ labelData = <<>>
    /\ fitData = <<>>
    /\ lastFit = "none"
    /\ out = NoOutput

Init ==
    /\ store \in Stores
    /\ loadState = "init"
    /\ loadError = "none"
    /\ corpus = <<>>
    /\ LdamInit
    /\ wcalls = <<>>

ldamVars == <<labelsSet, terms, documents, fitted, topic_word, doc_topic,
              dataMatrix, labelData, fitData, lastFit>>

\* m.get_corpus()
GetCorpus ==
    /\ loadState = "init"
    /\ LET r == get_corpus(store)
       IN  /\ loadState' = IF r.ok THEN "loaded" ELSE "error"
           /\ loadError' = IF r.ok THEN "none" ELSE r.badType
           /\ corpus' = r.corpus
    /\ UNCHANGED <<store, ldamVars, out, wcalls>>

\* model.fit(dataset); when the fitting routine returns, seed is its outcome
Fit(dataset) ==
    /\ loadState = "loaded"
    /\ \E dtm \in {createDocTermMat(dataset)} :
           /\ terms' = dtm.terms
           /\ documents' = dtm.titles
           /\ dataMatrix' = dtm.matrix
           /\ labelsSet' = TRUE
           /\ labelData' = dataset
           /\ IF LdaRaises(dtm.matrix)
              THEN /\ lastFit' = "raised"
                   /\ UNCHANGED <<fitted, topic_word, doc_topic, fitData>>
              ELSE \E seed \in 0..MaxSeed :
                   /\ lastFit' = "ok"
                   /\ fitted' = TRUE
                   /\ topic_word' = LdaTopicWord(Len(dtm.terms), seed)
                   /\ doc_topic' = LdaDocTopic(Len(dtm.matrix), seed)
                   /\ fitData' = dataset
    /\ out' = NoOutput
    /\ UNCHANGED <<store, loadState, loadError, corpus, wcalls>>

\* model.printTopics(n_words): everything topics(n_words) yields
Topics(n_words) ==
    /\ loadState = "loaded"
    /\ out' = TopicsOutput(n_words)
    /\ UNCHANGED <<store, loadState, loadError, corpus, ldamVars, wcalls>>

\* model.printDocTopic()
PrintDocTopic ==
    /\ loadState = "loaded"
    /\ out' = DocTopicOutput
    /\ UNCHANGED <<store, loadState, loadError, corpus, ldamVars, wcalls>>

Next ==
    \/ GetCorpus
    \/ \E dataset \in Prefixes(corpus) : Fit(dataset)
    \/ \E n_words \in 0..MaxNWords : Topics(n_words)
    \/ PrintDocTopic

Spec == Init /\ [][Next]_vars

(* apply_weighting on its own, over its whole domain *)

InitW ==
    /\ store = <<>>
    /\ loadState = "init"
    /\ loadError = "none"
    /\ corpus = <<>>
    /\ LdamInit
    /\ wcalls = <<>>

CallApplyWeighting(deg_sep) ==
    /\ Len(wcalls) < MaxCalls
    /\ wcalls' = Append(wcalls, <<deg_sep, apply_weighting(deg_sep)>>)
    /\ UNCHANGED <<store, loadState, loadError, corpus, ldamVars, out>>

NextW == \E deg_sep \in 1..MAX_DEGREE : CallApplyWeighting(deg_sep)

SpecW == InitW /\ [][NextW]_vars

------------------------------------------------------------------------------
(* Vocabulary of the properties *)

Occurrences(seq, x) == Cardinality({i \in 1..Len(seq) : seq[i] = x})

\* the tokens the matrix builder sees for one document
Tokens(doc) == simple_tokenize(Join(doc.document))

\* the term counts of one document over a vocabulary
DocCounts(doc, termSeq) ==
    LET toks == Tokens(doc)
    IN  [j \in 1..Len(termSeq) |-> Occurrences(toks, termSeq[j])]

RECURSIVE SumWeights(_)
SumWeights(dataset) ==
    IF dataset = <<>> THEN 0
    ELSE apply_weighting(Head(dataset).deg_sep) + SumWeights(Tail(dataset))

\* the matrix rows built from document k of a dataset
RowsOfDoc(dataset, k) ==
    LET first == SumWeights(SubSeq(dataset, 1, k - 1)) + 1
    IN  first .. (first + apply_weighting(dataset[k].deg_sep) - 1)

RECURSIVE CorpusOccurrences(_, _)
CorpusOccurrences(dataset, term) ==
    IF dataset = <<>> THEN 0
    ELSE Occurrences(Tokens(Head(dataset)), term) + CorpusOccurrences(Tail(dataset), term)

CorpusTokens(dataset) ==
    UNION {{Tokens(dataset[k])[i] : i \in 1..Len(Tokens(dataset[k]))} :
           k \in 1..Len(dataset)}

SeqSet(seq) == {seq[i] : i \in 1..Len(seq)}

NoDuplicates(seq) == \A i, j \in 1..Len(seq) : seq[i] = seq[j] => i = j

\* the words of the records of one base_url among the first n of the store
RECURSIVE WordsOfUrl(_, _)
WordsOfUrl(url, n) ==
    IF n = 0 THEN <<>>
    ELSE WordsOfUrl(url, n - 1) \o
         (IF store[n].base_url = url THEN Split(store[n].text.val) ELSE <<>>)

FirstIndex(url) == CHOOSE i \in 1..Len(store) :
    store[i].base_url = url /\ \A j \in 1..(i - 1) : store[j].base_url # url

\* the number of maximal runs of non-space characters of a string
WordStarts(s) == {i \in 1..Len(s) : ~IsSpace(s[i]) /\ (i = 1 \/ IsSpace(s[i - 1]))}

RECURSIVE Flatten(_)
Flatten(seqs) == IF seqs = <<>> THEN <<>> ELSE Head(seqs) \o Flatten(Tail(seqs))

\* the weight of a term in topic i (1-based) of the fitted model
TermWeight(i, term) ==
    topic_word[i][CHOOSE j \in 1..Len(terms) : terms[j] = term]

------------------------------------------------------------------------------
(* Properties *)

\* C1: the matrix, terms and titles createDocTermMat returns are
\* index-aligned: row i holds the term counts of the document titles[i]
\* names, column j the counts of terms[j].
C1_IndexAligned ==
    labelsSet =>
        /\ Len(dataMatrix) = Len(documents)
        /\ \A i \in 1..Len(dataMatrix) :
             /\ documents[i] = labelData[i].base_url
             /\ dataMatrix[i] = DocCounts(labelData[i], terms)

\* C2: after a fit, printDocTopic prints one line per document, in title
\* order, and the topic on the line of document k is the argmax of the
\* distribution of a matrix row built from document k.
C2_LineFromOwnDocument ==
    (out.kind = "doctopic" /\ lastFit = "ok") =>
        /\ out.err = "none"
        /\ Len(out.lines) = Len(fitData)
        /\ \A k \in 1..Len(out.lines) :
             /\ out.lines[k].title = fitData[k].base_url
             /\ \E r \in RowsOfDoc(fitData, k) :
                  out.lines[k].topic = ArgMax(doc_topic[r])

\* C3: for 1 <= d <= MAX_DEGREE apply_weighting(d) is a positive integer,
\* and it is non-increasing in d.
C3_WeightPositiveNonIncreasing ==
    \A i, j \in 1..Len(wcalls) :
        /\ wcalls[i][2] >= 1
        /\ wcalls[i][1] <= wcalls[j][1] => wcalls[i][2] >= wcalls[j][2]

C3_Witness ==
    /\ Len(wcalls) = 2
    /\ wcalls[1][1] = 1
    /\ wcalls[2][1] = MAX_DEGREE
    /\ wcalls[1][2] > wcalls[2][2]

\* C4: a document whose degree of separation is MAX_DEGREE has replication
\* count exactly 1, and its word list is inserted exactly once.
C4_MaxDegreeInsertedOnce ==
    labelsSet =>
        /\ \A k \in 1..Len(labelData) :
             labelData[k].deg_sep = MAX_DEGREE =>
                 apply_weighting(labelData[k].deg_sep) = 1
        /\ (\A k \in 1..Len(labelData) : labelData[k].deg_sep = MAX_DEGREE) =>
             /\ Len(dataMatrix) = Len(labelData)
             /\ \A k \in 1..Len(labelData) :
                  dataMatrix[k] = DocCounts(labelData[k], terms)

C4_Witness ==
    /\ lastFit = "ok"
    /\ Len(labelData) = 2
    /\ \A k \in 1..2 : labelData[k].deg_sep = MAX_DEGREE
    /\ Tokens(labelData[1]) # Tokens(labelData[2])
    /\ Len(dataMatrix) = 2

\* C5: createDocTermMat returns the base identifiers of the N documents in
\* dataset order, and a matrix with as many rows as the sum of the
\* documents' replication counts.
C5_TitlesAndRowCount ==
    labelsSet =>
        /\ documents = [k \in 1..Len(labelData) |-> labelData[k].base_url]
        /\ Len(dataMatrix) = SumWeights(labelData)

C5_Witness ==
    /\ lastFit = "ok"
    /\ Len(labelData) = 2
    /\ labelData[1].base_url = "a" /\ labelData[1].deg_sep = 1
    /\ labelData[2].base_url = "b" /\ labelData[2].deg_sep = MAX_DEGREE
    /\ documents = <<"a", "b">>
    /\ Len(dataMatrix) = apply_weighting(1) + 1
    /\ Len(dataMatrix) > 2

\* C6 as stated: no term occurring exactly once across the corpus is in the
\* vocabulary, and every term occurring at least twice is.
C6_SingletonsExcluded ==
    labelsSet =>
        \A term \in CorpusTokens(labelData) :
            /\ CorpusOccurrences(labelData, term) = 1 => term \notin SeqSet(terms)
            /\ CorpusOccurrences(labelData, term) >= 2 => term \in SeqSet(terms)

\* C6, amended: with cutoff 1 the vocabulary is every token of the
\* documents, each once, terms occurring exactly once included.
C6_VocabularyIsEveryToken ==
    labelsSet =>
        /\ SeqSet(terms) = CorpusTokens(labelData)
        /\ NoDuplicates(terms)

C6_Witness ==
    /\ labelsSet
    /\ Len(labelData) = 2
    /\ \E term \in SeqSet(terms) : CorpusOccurrences(labelData, term) = 1
    /\ \E term \in SeqSet(terms) : CorpusOccurrences(labelData, term) >= 2

\* the included words of a topic line are in ascending weight, and every
\* excluded term weighs more than every included one
AscendingPrefix(i, words) ==
    /\ NoDuplicates(words)
    /\ SeqSet(words) \subseteq SeqSet(terms)
    /\ \A p, q \in 1..Len(words) :
         p < q => TermWeight(i, words[p]) < TermWeight(i, words[q])
    /\ \A x \in SeqSet(terms) \ SeqSet(words) :
         \A p \in 1..Len(words) : TermWeight(i, words[p]) < TermWeight(i, x)

TopicsShape(excluded) ==
    /\ out.err = "none"
    /\ out.hasVocab /\ out.vocab = terms
    /\ Len(out.lines) = NumberTopics
    /\ \A i \in 1..Len(out.lines) :
         LET words == Split(out.lines[i].text)
         IN  /\ out.lines[i].topic = i - 1
             /\ AscendingPrefix(i, words)
             /\ Len(words) = Max2(Len(terms) - excluded, 0)

\* C7: after fit, topics(n) yields the vocabulary and then, per topic in
\* increasing index order, one line 'Topic i' of the terms in ascending
\* weight with exactly the n highest-weighted terms excluded.
C7_ExcludesTopN ==
    (out.kind = "topics" /\ lastFit = "ok") => TopicsShape(out.n_words)

\* C8: get_corpus returns one Document per distinct base_url, in
\* enumeration order, with the words of exactly the records of that
\* base_url and the maximum deg_sep among them.
C8_CorpusMergesByBaseUrl ==
    loadState = "loaded" =>
        /\ {corpus[i].base_url : i \in 1..Len(corpus)} =
               {store[n].base_url : n \in 1..Len(store)}
        /\ \A i, j \in 1..Len(corpus) :
               i < j => FirstIndex(corpus[i].base_url) < FirstIndex(corpus[j].base_url)
        /\ \A i \in 1..Len(corpus) :
             LET mine == {n \in 1..Len(store) : store[n].base_url = corpus[i].base_url}
             IN  /\ corpus[i].document = WordsOfUrl(corpus[i].base_url, Len(store))
                 /\ \E n \in mine : corpus[i].deg_sep = store[n].deg_sep
                 /\ \A n \in mine : corpus[i].deg_sep >= store[n].deg_sep

C8_Witness ==
    /\ loadState = "loaded"
    /\ Len(store) = 2
    /\ store[1].base_url = store[2].base_url
    /\ store[1].deg_sep > store[2].deg_sep
    /\ store[1].text # store[2].text
    /\ Len(corpus) = 1
    /\ Len(corpus[1].document) = 5

\* C9: filter_words fails with an assertion error naming the type of a
\* non-string input and returns the whitespace-split words of a string
\* (stopwords kept); get_corpus on a store with a non-string text ends in
\* the error state without a corpus.
C9_NonStringRejected ==
    loadState # "init" =>
        /\ loadState = "error" <=> \E n \in 1..Len(store) : store[n].text.type # "str"
        /\ loadState = "error" =>
             /\ corpus = <<>>
             /\ \E n \in 1..Len(store) :
                  /\ store[n].text.type = loadError
                  /\ loadError # "str"
                  /\ ~filter_words(store[n].text).ok
        /\ \A n \in 1..Len(store) :
             store[n].text.type = "str" =>
                 LET fw == filter_words(store[n].text)
                 IN  /\ fw.ok
                     /\ Len(fw.words) = Cardinality(WordStarts(store[n].text.val))
                     /\ \A w \in SeqSet(fw.words) :
                          w # <<>> /\ \A c \in SeqSet(w) : ~IsSpace(c)
                     /\ Flatten(fw.words) =
                            SelectSeq(store[n].text.val, LAMBDA c : ~IsSpace(c))

C9_Witness ==
    /\ loadState = "error"
    /\ loadError = "int"
    /\ Len(store) = 2
    /\ store[1].text = TextB
    /\ store[2].text.type = "int"
    /\ filter_words(store[1].text).words = << <<"a">>, <<"B", "1">> >>
    /\ corpus = <<>>

\* C10: after any sequence of fit calls the labels the model holds were
\* built from the dataset whose matrix produced the distributions it holds.
C10_LabelsMatchDistributions ==
    fitted => labelData = fitData

====
